---------------------------- MODULE Spec2Model ----------------------------
(***************************************************************************)
(* State-machine model of the Telegram -> YouTube uploader bot             *)
(* (src/bot.js, src/uploader.js, src/config.js).                           *)
(*                                                                         *)
(* One process multiplexes all users.  An async handler runs atomically    *)
(* from one `await` to the next; between two awaits of one handler any     *)
(* other handler (of the same or of another user) may run.  A handler in   *)
(* flight is a record in `handlers`; its `pc` names the await it is        *)
(* suspended at.  Session objects are JS objects: a handler keeps the      *)
(* reference it read from the userSessions Map, also after /cancel or      *)
(* /logout put another object (or nothing) under the user's key.  Such a   *)
(* detached object lives in `orphans` for as long as a handler holds it.   *)
(***************************************************************************)
EXTENDS Integers, Sequences, FiniteSets, TLC

\* ------------------------------------------------------------- bounds
MaxEvents == 4
MaxFlowEvents == 5
MaxDuoEvents == 6
MaxInFlight == 2

\* ---------------------------------------------------- program constants
MaxSize == 52428800
TitleMax == 100
DescriptionMax == 5000
TagsMax == 30

Users == {1, 2}
AdminIds == {1}

\* ------------------------------------------------------------ the data
Null == "<null>"
\* An object property that was never assigned: a text, a plain value, a size.
Unset == <<"<unset>">>
NoValue == "<unset>"
NoSize == -1

\* A text is the sequence of its characters.
TxtDemo == <<"D", "e", "m", "o">>
TxtSkip == <<"s", "k", "i", "p">>
TxtSkipTyped == <<" ", "S", "k", "i", "p", " ">>
TxtCode == <<"4", "/", "c", "0", "d", "e">>
TxtUrl == <<"h", "t", "t", "p", ":", "/", "/", "h", "/", "v">>

\* Texts a user sends, as typed (before String.trim()).
RawTexts == {TxtDemo, TxtSkip, TxtSkipTyped, TxtCode, TxtUrl}
\* Texts the identity provider accepts as an authorization code.
AuthCodes == {TxtCode}
\* The Telegram videos a user can send (their file_id), and the file_size
\* each declares.
FileIds == {"f1", "f2", "f3"}
FileSize(f) == IF f = "f3" THEN MaxSize + 1 ELSE MaxSize

\* The documents a user can send: a video with an upper-case extension and
\* a text file.
DocClip ==
  [file_id |-> "d1", mime_type |-> "video/x-matroska",
   file_name |-> <<"c", ".", "M", "K", "V">>, file_size |-> MaxSize]
DocNote ==
  [file_id |-> "d2", mime_type |-> "text/plain",
   file_name |-> <<"n", ".", "t", "x", "t">>, file_size |-> MaxSize]
Documents == {DocClip, DocNote}
\* A document that declares a video MIME type under a name that is no
\* video's.
DocOdd ==
  [file_id |-> "d3", mime_type |-> "video/mp4",
   file_name |-> <<"x", ".", "e", "x", "e">>, file_size |-> MaxSize]
\* Values Date.now() contributes to the file names of URL downloads.
Clock == {"t1", "t2"}
Privacies == {"private", "unlisted", "public"}

UpperCase ==
  <<"A", "B", "C", "D", "E", "F", "G", "H", "I", "J", "K", "L", "M",
    "N", "O", "P", "Q", "R", "S", "T", "U", "V", "W", "X", "Y", "Z">>
LowerCase ==
  <<"a", "b", "c", "d", "e", "f", "g", "h", "i", "j", "k", "l", "m",
    "n", "o", "p", "q", "r", "s", "t", "u", "v", "w", "x", "y", "z">>

IsUpper(c) == \E k \in 1..Len(UpperCase) : UpperCase[k] = c
IsLower(c) == \E k \in 1..Len(LowerCase) : LowerCase[k] = c
LowerChar(c) ==
  IF IsUpper(c)
  THEN LowerCase[CHOOSE k \in 1..Len(UpperCase) : UpperCase[k] = c]
  ELSE c

\* String.prototype.toLowerCase
ToLowerCase(t) == [k \in 1..Len(t) |-> LowerChar(t[k])]

\* String.prototype.trim
Trim(t) ==
  LET inked == {k \in 1..Len(t) : t[k] # " "} IN
  IF inked = {} THEN <<>>
  ELSE SubSeq(t, CHOOSE a \in inked : \A b \in inked : a <= b,
                 CHOOSE a \in inked : \A b \in inked : b <= a)

\* isValidUrl (src/bot.js 762-769): new URL(string) accepts a text that
\* starts with a scheme (a letter, then letters) and a colon.
IsValidUrl(t) ==
  \E k \in 2..Len(t) :
    /\ t[k] = ":"
    /\ \A j \in 1..(k - 1) : IsLower(t[j]) \/ IsUpper(t[j])

\* path.extname: from the last dot on, unless there is none or it leads.
ExtName(name) ==
  LET dots == {k \in 2..Len(name) : name[k] = "."} IN
  IF dots = {} THEN <<>>
  ELSE SubSeq(name, CHOOSE a \in dots : \A b \in dots : b <= a, Len(name))

EmptyInfo ==
  [title |-> Unset, description |-> Unset, tags |-> Unset,
   privacyStatus |-> NoValue, mimeType |-> NoValue, size |-> NoSize,
   filePath |-> NoValue]

NoSession ==
  [step |-> "none", videoInfo |-> EmptyInfo, filePath |-> Null,
   authStep |-> Null, isAdmin |-> FALSE]

DefaultSession(u) ==
  [step |-> "idle", videoInfo |-> EmptyInfo, filePath |-> Null,
   authStep |-> Null, isAdmin |-> (u \in AdminIds)]

NoTokens == [u \in Users |-> "none"]
NoCreds == [owner |-> 0, tok |-> "none"]
NoReply == [to |-> 0, msg |-> ""]

FreeHandler ==
  [k |-> "free", u |-> 0, s |-> -1, pc |-> "", arg |-> <<>>, n |-> 0,
   path |-> Null, snap |-> NoTokens, res |-> ""]

Slots == 1..MaxInFlight

VARIABLES
  userSessions,  \* the Map userId -> session object (NoSession: no entry)
  orphans,       \* session objects no longer in the Map, still referenced
  handlers,      \* the handlers suspended at an await
  tokensFile,    \* auth/tokens.json: [exists, all]
  oauthCreds,    \* credentials set on the one shared OAuth2 client
  files,         \* scratch files present in tempDir
  youtubeCalls,  \* the youtube.videos.insert calls issued so far
  lastReply,     \* the message the last step sent: [to, msg], or NoReply
  everStored,    \* history: a credential record was ever stored for the user
  faults,        \* whether remote calls, replies and transfers may fail in this run
  budget,        \* inbound events the run may still take
  probe          \* the last direct call of an uploader function: what it was given and returned

vars ==
  <<userSessions, orphans, handlers, tokensFile, oauthCreds, files,
    youtubeCalls, lastReply, everStored, faults, budget, probe>>

\* ----------------------------------------------------------- helpers
Min(S) == CHOOSE x \in S : \A y \in S : x <= y

FreeSlots(hs) == {i \in Slots : hs[i].k = "free"}

\* The session object a handler holds: the Map's object of its user
\* (s = 0) or a detached one.
SessOf(us, orph, h) == IF h.s = 0 THEN us[h.u] ELSE orph[h.s]

\* Orphans nobody references any more are garbage.
Collect(orph, hs) ==
  [o \in Slots |->
     IF \E i \in Slots : hs[i].k # "free" /\ hs[i].s = o
     THEN orph[o] ELSE NoSession]

\* userSessions.set(userId, fresh) / userSessions.delete(userId): the object
\* that was under the key stays alive for the handlers `hs` that hold it.
DetachHandlers(hs, u, o) ==
  [i \in Slots |->
     IF hs[i].k # "free" /\ hs[i].u = u /\ hs[i].s = 0
     THEN [hs[i] EXCEPT !.s = o] ELSE hs[i]]

HeldByHandlers(hs, u) ==
  \E i \in Slots : hs[i].k # "free" /\ hs[i].u = u /\ hs[i].s = 0

FreeOrphan(hs) ==
  Min({o \in Slots : \A i \in Slots : hs[i].k = "free" \/ hs[i].s # o})

\* A middleware that fills in the entry of every user, not only the sender's:
\* the variant C5 is measured against.
MiddlewareForAll(us, u) ==
  [v \in Users |-> IF us[v].step = "none" THEN DefaultSession(v) ELSE us[v]]

\* Session middleware (src/bot.js 36-62): create the entry if there is none.
Middleware(us, u) ==
  IF us[u].step = "none" THEN [us EXCEPT ![u] = DefaultSession(u)] ELSE us

\* Write `new` into the object handler record `h` holds.
PutSess(us, h, new) == IF h.s = 0 THEN [us EXCEPT ![h.u] = new] ELSE us
PutOrph(orph, h, new) == IF h.s = 0 THEN orph ELSE [orph EXCEPT ![h.s] = new]

\* A getTokens that hands out whichever record the file holds, whoever asks:
\* the variant C2 is measured against.
GetTokensOfAnyone(tf, u) ==
  IF tf.exists /\ \E v \in Users : tf.all[v] # "none"
  THEN tf.all[CHOOSE v \in Users : tf.all[v] # "none"]
  ELSE "none"

\* getTokens (src/uploader.js 49-59)
GetTokens(tf, u) == IF tf.exists THEN tf.all[u] ELSE "none"

\* saveTokens up to the write (src/uploader.js 30-39): what was read, or {}
\* without a file, with the user's entry set.
SaveTokensMerge(tf, u, tokens) ==
  [(IF tf.exists THEN tf.all ELSE NoTokens) EXCEPT ![u] = tokens]

\* A deletion that empties the whole file: the variant C14 is measured
\* against.
DeleteEveryEntry(all, u) == [v \in Users |-> "none"]

\* deleteTokens up to the write (src/uploader.js 64-65): what was read,
\* without the user's entry.
DeleteTokensEntry(all, u) == [all EXCEPT ![u] = "none"]

\* Whether a read or write of auth/tokens.json goes through; one that does
\* not throws into the catch block of saveTokens / deleteTokens, which
\* returns false (src/uploader.js 43-46, 69-72).
StorageOutcomes == IF faults THEN {TRUE, FALSE} ELSE {TRUE}

\* No uploader function has been called directly.
NoProbe == [fn |-> "none", arg |-> 0, out |-> 0, prevDeleted |-> 0]

\* The state after construction, with one of the credential files `tok`,
\* an allowance of n inbound events and fault modes `fm`.
InitWith(tok, n, fm) ==
  /\ userSessions = [u \in Users |-> NoSession]
  /\ orphans = [o \in Slots |-> NoSession]
  /\ handlers = [i \in Slots |-> FreeHandler]
  /\ tokensFile \in tok
  /\ oauthCreds = NoCreds
  /\ files = {}
  /\ youtubeCalls = <<>>
  /\ lastReply = NoReply
  /\ everStored = [u \in Users |-> tokensFile.exists /\ tokensFile.all[u] # "none"]
  /\ faults \in fm
  /\ budget = n
  /\ probe = NoProbe

\* ---------------------------------------------------- action plumbing
\* The next values of the three variables that hold session objects and
\* handlers; detached objects nobody holds any more are dropped.  What can
\* fail in a run is fixed from its start.
Settle(us, orph, hs) ==
  /\ userSessions' = us
  /\ handlers' = hs
  /\ orphans' = Collect(orph, hs)
  /\ faults' = faults

\* A step of the bot: no uploader function is called outside a handler.
Commit(us, orph, hs) ==
  /\ Settle(us, orph, hs)
  /\ probe' = probe

\* The handlers that keep the session object they read on entry.
Capturing == {"upload", "auth", "cancel", "video", "url", "tags"}

NewHandler(k, u, pc, arg, n, path) ==
  [k |-> k, u |-> u, s |-> IF k \in Capturing THEN 0 ELSE -1, pc |-> pc,
   arg |-> arg, n |-> n, path |-> path, snap |-> NoTokens, res |-> ""]

\* An inbound update starts a handler that suspends at its first await.
Start(hs, h) == [hs EXCEPT ![Min(FreeSlots(hs))] = h]

CanStart == budget > 0 /\ FreeSlots(handlers) # {}

\* Whether a message the bot sends (ctx.reply, ctx.editMessageText) arrives;
\* one that does not makes the await throw.
Delivery == IF faults THEN {TRUE, FALSE} ELSE {TRUE}

Say(u, msg) == lastReply' = [to |-> u, msg |-> msg]
Silent == lastReply' = NoReply

\* Handler `i` assigns `new` to the session object it holds and continues
\* as `h` (FreeHandler: it returns).
Continue(i, new, h) ==
  Commit(PutSess(userSessions, handlers[i], new),
         PutOrph(orphans, handlers[i], new),
         [handlers EXCEPT ![i] = h])

\* Handler `i` leaves the session objects alone and continues as `h`.
Goto(i, h) == Commit(userSessions, orphans, [handlers EXCEPT ![i] = h])

Held(i) == SessOf(userSessions, orphans, handlers[i])

\* ------------------------------------------------------ inbound events
\* bot.command('upload') up to its first await (checkAuth -> getTokens).
CmdUpload(u) ==
  /\ CanStart
  /\ Commit(Middleware(userSessions, u), orphans,
            Start(handlers, NewHandler("upload", u, "ca_read", <<>>, 0, Null)))
  /\ budget' = budget - 1
  /\ Silent
  /\ UNCHANGED <<tokensFile, oauthCreds, files, youtubeCalls, everStored>>

\* bot.action('manual_upload') up to answerCbQuery / checkAuth.
ActManualUpload(u) ==
  /\ CanStart
  /\ Commit(Middleware(userSessions, u), orphans,
            Start(handlers, NewHandler("manual", u, "ca_read", <<>>, 0, Null)))
  /\ budget' = budget - 1
  /\ Silent
  /\ UNCHANGED <<tokensFile, oauthCreds, files, youtubeCalls, everStored>>

\* bot.command('auth') up to its first await (checkAuth -> getTokens).
CmdAuth(u) ==
  /\ CanStart
  /\ Commit(Middleware(userSessions, u), orphans,
            Start(handlers, NewHandler("auth", u, "ca_read", <<>>, 0, Null)))
  /\ budget' = budget - 1
  /\ Silent
  /\ UNCHANGED <<tokensFile, oauthCreds, files, youtubeCalls, everStored>>

\* bot.command('logout') up to its first await (deleteTokens -> pathExists).
CmdLogout(u) ==
  /\ CanStart
  /\ Commit(Middleware(userSessions, u), orphans,
            Start(handlers, NewHandler("logout", u, "dt_read", <<>>, 0, Null)))
  /\ budget' = budget - 1
  /\ Silent
  /\ UNCHANGED <<tokensFile, oauthCreds, files, youtubeCalls, everStored>>

\* The object the Map holds for `u` is replaced by `fresh` (NoSession: the
\* key is deleted); handlers `hs` that hold the old object keep it.
Replace(us, orph, hs, u, fresh) ==
  IF HeldByHandlers(hs, u)
  THEN Commit([us EXCEPT ![u] = fresh],
              [orph EXCEPT ![FreeOrphan(hs)] = us[u]],
              DetachHandlers(hs, u, FreeOrphan(hs)))
  ELSE Commit([us EXCEPT ![u] = fresh], orph, hs)

\* The session /cancel installs (src/bot.js 328-335).
CancelledSession(old) ==
  [step |-> "idle", videoInfo |-> EmptyInfo, filePath |-> Null,
   authStep |-> Null, isAdmin |-> old.isAdmin]

\* bot.command('cancel'): without a file the whole handler runs at once;
\* with one it suspends in cleanup(session.filePath).
CmdCancel(u) ==
  LET us == Middleware(userSessions, u) IN
  /\ budget > 0
  /\ IF us[u].filePath = Null
     THEN /\ Replace(us, orphans, handlers, u, CancelledSession(us[u]))
          /\ Say(u, "cancelled")
     ELSE /\ FreeSlots(handlers) # {}
          /\ Commit(us, orphans,
                    Start(handlers,
                          NewHandler("cancel", u, "cn_clean", <<>>, 0, us[u].filePath)))
          /\ Silent
  /\ budget' = budget - 1
  /\ UNCHANGED <<tokensFile, oauthCreds, files, youtubeCalls, everStored>>

\* bot.action('cancel' | 'cancel_auth' | 'privacy_*') up to answerCbQuery.
ActCancel(u) ==
  /\ CanStart
  /\ Commit(Middleware(userSessions, u), orphans,
            Start(handlers, NewHandler("cancel_btn", u, "cb", <<>>, 0, Null)))
  /\ budget' = budget - 1
  /\ Silent
  /\ UNCHANGED <<tokensFile, oauthCreds, files, youtubeCalls, everStored>>

ActCancelAuth(u) ==
  /\ CanStart
  /\ Commit(Middleware(userSessions, u), orphans,
            Start(handlers, NewHandler("cancel_auth", u, "cb", <<>>, 0, Null)))
  /\ budget' = budget - 1
  /\ Silent
  /\ UNCHANGED <<tokensFile, oauthCreds, files, youtubeCalls, everStored>>

ActPrivacy(u, privacy) ==
  /\ CanStart
  /\ Commit(Middleware(userSessions, u), orphans,
            Start(handlers,
                  [NewHandler("privacy", u, "cb", <<>>, 0, Null) EXCEPT !.res = privacy]))
  /\ budget' = budget - 1
  /\ Silent
  /\ UNCHANGED <<tokensFile, oauthCreds, files, youtubeCalls, everStored>>

\* A guard that only asks whether there is a session, not for its step: the
\* variant C7 is measured against.
NoSessionAtAll(session) == session.step = "none"

\* The entry guard of handleVideoFile and handleUrl (src/bot.js 497, 575).
NotAwaitingVideo(session) == session.step # "awaiting_video"

\* The name handleVideoFile gives the scratch file of a video message,
\* video_<file_id>.mp4 (src/bot.js 517-519); the id tells the files apart.
VideoName == <<"v", ".", "m", "p", "4">>

\* handleVideoFile up to its first await (src/bot.js 493-502).
HandleVideoFile(us, u, fileId, fileName, fileSize) ==
  /\ IF NotAwaitingVideo(us[u])
     THEN /\ Commit(us, orphans, handlers)
          /\ Say(u, "use_upload_first")
     ELSE /\ FreeSlots(handlers) # {}
          /\ Commit(us, orphans,
                    Start(handlers,
                          NewHandler("video", u, "ca_read", fileName, fileSize, fileId)))
          /\ Silent
  /\ budget' = budget - 1
  /\ UNCHANGED <<tokensFile, oauthCreds, files, youtubeCalls, everStored>>

\* bot.on('video') (src/bot.js 371-373)
OnVideo(u, fileId) ==
  /\ budget > 0
  /\ HandleVideoFile(Middleware(userSessions, u), u, fileId, VideoName,
                     FileSize(fileId))

\* bot.on('document') (src/bot.js 376-385): only a document whose MIME type
\* starts with video/ goes to handleVideoFile.
IsVideoMime(mime) == mime \in {"video/mp4", "video/x-matroska"}

OnDocument(u, doc) ==
  /\ budget > 0
  /\ IF IsVideoMime(doc.mime_type)
     THEN HandleVideoFile(Middleware(userSessions, u), u, doc.file_id,
                          doc.file_name, doc.file_size)
     ELSE /\ Commit(Middleware(userSessions, u), orphans, handlers)
          /\ Say(u, "send_a_video")
          /\ budget' = budget - 1
          /\ UNCHANGED <<tokensFile, oauthCreds, files, youtubeCalls, everStored>>

\* handleTitle (src/bot.js 665-673)
HandleTitle(session, text) ==
  [session EXCEPT !.videoInfo.title = text, !.step = "awaiting_description"]

\* handleDescription (src/bot.js 675-695)
HandleDescription(session, text) ==
  [session EXCEPT
     !.videoInfo.description = IF ToLowerCase(text) # TxtSkip THEN text ELSE @,
     !.step = "awaiting_privacy"]

\* handleTags up to its first await (src/bot.js 711-721)
HandleTagsEnter(session, text) ==
  [session EXCEPT
     !.videoInfo.tags = IF ToLowerCase(text) # TxtSkip THEN text ELSE @,
     !.step = "uploading"]

\* A routing that looks at the step before it looks at authStep: the variant
\* C10 is measured against.
TextRouteStepFirst(session, text) ==
  IF session.step = "awaiting_title" THEN "title"
  ELSE IF session.step = "awaiting_description" THEN "description"
  ELSE IF session.step = "awaiting_tags" THEN "tags"
  ELSE IF session.authStep = "awaiting_code" THEN "code"
  ELSE IF IsValidUrl(text)
       THEN (IF session.step # "awaiting_video" THEN "url_rejected" ELSE "url")
  ELSE IF session.step = "idle" THEN "hint"
  ELSE "ignored"

\* The branch bot.on('text') takes (src/bot.js 389-422).
TextRoute(session, text) ==
  IF session.authStep = "awaiting_code" THEN "code"
  ELSE IF session.step = "awaiting_title" THEN "title"
  ELSE IF session.step = "awaiting_description" THEN "description"
  ELSE IF session.step = "awaiting_tags" THEN "tags"
  ELSE IF IsValidUrl(text)
       THEN (IF NotAwaitingVideo(session) THEN "url_rejected" ELSE "url")
  ELSE IF session.step = "idle" THEN "hint"
  ELSE "ignored"

\* bot.on('text') up to the first await of the handler it routes to.
OnText(u, raw) ==
  LET us == Middleware(userSessions, u)
      text == Trim(raw)
      route == TextRoute(us[u], text)
  IN
  /\ budget > 0
  /\ CASE route = "code" ->
            /\ FreeSlots(handlers) # {}
            /\ Commit(us, orphans,
                      Start(handlers, NewHandler("code", u, "ac_exch", text, 0, Null)))
            /\ Say(u, "processing_code")
       [] route = "title" ->
            /\ Commit([us EXCEPT ![u] = HandleTitle(us[u], text)], orphans, handlers)
            /\ Say(u, "ask_description")
       [] route = "description" ->
            /\ Commit([us EXCEPT ![u] = HandleDescription(us[u], text)],
                      orphans, handlers)
            /\ Say(u, "ask_privacy")
       [] route = "tags" ->
            /\ FreeSlots(handlers) # {}
            /\ Commit([us EXCEPT ![u] = HandleTagsEnter(us[u], text)], orphans,
                      Start(handlers,
                            NewHandler("tags", u, "tg_reply", <<>>, 0, Null)))
            /\ Say(u, "starting_upload")
       [] route = "url" ->
            /\ FreeSlots(handlers) # {}
            /\ Commit(us, orphans,
                      Start(handlers, NewHandler("url", u, "ca_read", text, 0, Null)))
            /\ Silent
       [] route = "url_rejected" ->
            /\ Commit(us, orphans, handlers)
            /\ Say(u, "use_upload_first")
       [] route = "hint" ->
            /\ Commit(us, orphans, handlers)
            /\ Say(u, "hint")
       [] OTHER ->
            /\ Commit(us, orphans, handlers)
            /\ Silent
  /\ budget' = budget - 1
  /\ UNCHANGED <<tokensFile, oauthCreds, files, youtubeCalls, everStored>>

\* ------------------------------------------------- checkAuth and callers
\* What the handler does when checkAuth returned false.
AuthDenied(i) ==
  LET h == handlers[i] IN
  CASE h.k = "upload" -> Goto(i, FreeHandler) /\ Say(h.u, "auth_required")
    [] h.k = "auth" ->
         \* getAuthUrl, then the instructions are sent: await ctx.reply
         Goto(i, [h EXCEPT !.pc = "au_set"]) /\ Say(h.u, "auth_instructions")
    [] OTHER -> Goto(i, FreeHandler) /\ Say(h.u, "auth_first")

\* config.files.allowedExtensions (src/config.js 52)
AllowedExtensions ==
  {<<".", "m", "p", "4">>, <<".", "m", "k", "v">>, <<".", "a", "v", "i">>,
   <<".", "m", "o", "v">>, <<".", "w", "m", "v">>, <<".", "f", "l", "v">>,
   <<".", "w", "e", "b", "m">>}

\* getFileExtension (src/uploader.js 432-434)
GetFileExtension(fileName) == ToLowerCase(ExtName(fileName))

\* isValidExtension (src/uploader.js 427-430)
IsValidExtension(fileName) == ToLowerCase(ExtName(fileName)) \in AllowedExtensions

\* What the handler does when checkAuth returned true.
AuthGranted(i) ==
  LET h == handlers[i] IN
  CASE h.k = "upload" ->
         Goto(i, [h EXCEPT !.pc = "up_set"]) /\ Say(h.u, "upload_menu")
    [] h.k = "manual" ->
         \* this.userSessions.get(userId).step = 'awaiting_video'; a missing
         \* entry makes the assignment throw and the handler ends.
         /\ IF userSessions[h.u].step = "none"
            THEN Goto(i, FreeHandler) /\ Silent
            ELSE /\ Commit([userSessions EXCEPT ![h.u].step = "awaiting_video"],
                           orphans, [handlers EXCEPT ![i] = FreeHandler])
                 /\ Say(h.u, "send_video")
    [] h.k = "auth" ->
         Goto(i, [h EXCEPT !.pc = "ch_read"]) /\ Silent
    [] h.k = "video" ->
         IF h.n > MaxSize
         THEN Goto(i, FreeHandler) /\ Say(h.u, "too_large")
         ELSE IF ~IsValidExtension(GetFileExtension(h.arg))
         THEN Goto(i, FreeHandler) /\ Say(h.u, "unsupported_format")
         ELSE Goto(i, [h EXCEPT !.pc = "vf_link"]) /\ Say(h.u, "downloading")
    [] OTHER ->
         Goto(i, [h EXCEPT !.pc = "url_go"]) /\ Say(h.u, "processing_link")

\* checkAuth, first half (src/uploader.js 119-124): getTokens, then
\* setCredentials on the shared client and the probe call is issued.
CheckAuthRead(i) ==
  LET h == handlers[i]
      tokens == GetTokens(tokensFile, h.u)
  IN
  /\ h.k \in {"upload", "manual", "auth", "video", "url"}
  /\ h.pc = "ca_read"
  /\ IF tokens = "none"
     THEN AuthDenied(i) /\ UNCHANGED oauthCreds
     ELSE /\ oauthCreds' = [owner |-> h.u, tok |-> tokens]
          /\ Goto(i, [h EXCEPT !.pc = "ca_call"])
          /\ Silent
  /\ UNCHANGED <<tokensFile, files, youtubeCalls, everStored, budget>>

\* The answers the remote API can give to a call made with the credentials
\* the shared client holds: any call can fail, only valid tokens succeed.
RemoteAnswers ==
  IF oauthCreds.tok = "valid" THEN (IF faults THEN {TRUE, FALSE} ELSE {TRUE})
  ELSE {FALSE}

\* checkAuth, second half (src/uploader.js 126-137): channels.list answers.
CheckAuthCall(i) ==
  LET h == handlers[i] IN
  /\ h.k \in {"upload", "manual", "auth", "video", "url"}
  /\ h.pc = "ca_call"
  /\ \E ok \in RemoteAnswers : IF ok THEN AuthGranted(i) ELSE AuthDenied(i)
  /\ UNCHANGED <<tokensFile, oauthCreds, files, youtubeCalls, everStored, budget>>

\* bot.command('upload') after the menu was sent (src/bot.js 199).  A reply
\* that failed ended the handler instead.
UploadSetStep(i) ==
  LET h == handlers[i] IN
  /\ h.k = "upload" /\ h.pc = "up_set"
  /\ \E sent \in Delivery :
       IF sent
       THEN Continue(i, [Held(i) EXCEPT !.step = "awaiting_video"], FreeHandler)
       ELSE Goto(i, FreeHandler)
  /\ Silent
  /\ UNCHANGED <<tokensFile, oauthCreds, files, youtubeCalls, everStored, budget>>

\* bot.command('auth') after the instructions were sent (src/bot.js 158).
AuthSetStep(i) ==
  LET h == handlers[i] IN
  /\ h.k = "auth" /\ h.pc = "au_set"
  /\ \E sent \in Delivery :
       IF sent
       THEN Continue(i, [Held(i) EXCEPT !.authStep = "awaiting_code"], FreeHandler)
            /\ Say(h.u, "send_code")
       ELSE Goto(i, FreeHandler) /\ Silent
  /\ UNCHANGED <<tokensFile, oauthCreds, files, youtubeCalls, everStored, budget>>

\* getChannelInfo for an already authenticated /auth (src/uploader.js
\* 140-160): getTokens, setCredentials, channels.list, then the reply.
ChannelInfoRead(i) ==
  LET h == handlers[i]
      tokens == GetTokens(tokensFile, h.u)
  IN
  /\ h.k = "auth" /\ h.pc = "ch_read"
  /\ oauthCreds' = IF tokens = "none" THEN oauthCreds
                   ELSE [owner |-> h.u, tok |-> tokens]
  /\ Goto(i, FreeHandler)
  /\ Say(h.u, "already_authenticated")
  /\ UNCHANGED <<tokensFile, files, youtubeCalls, everStored, budget>>

\* --------------------------------------------- cancel, buttons, logout
\* FileDownloader.cleanup (src/uploader.js 436-445): remove the file if it
\* is there; never throws.
Cleanup(fs, path) == fs \ {path}

\* cleanupOldFiles (src/uploader.js 447-465): every file of tempDir whose
\* modification time is more than maxAgeHours back is removed.  `aged` are
\* the files that old when it runs.
CleanupOldFiles(fs, aged) == fs \ aged

\* A run of cleanupOldFiles.  It is a step of no specification: nothing in
\* src/ calls the function or schedules it.
Sweep ==
  /\ \E aged \in SUBSET files : files' = CleanupOldFiles(files, aged)
  /\ Commit(userSessions, orphans, handlers)
  /\ Silent
  /\ UNCHANGED <<tokensFile, oauthCreds, youtubeCalls, everStored, budget>>

\* bot.command('cancel') after cleanup returned (src/bot.js 328-337): the
\* Map gets a fresh object built from the one read before the await.
CancelCleanup(i) ==
  LET h == handlers[i]
      done == [handlers EXCEPT ![i] = FreeHandler]
  IN
  /\ h.k = "cancel" /\ h.pc = "cn_clean"
  /\ files' = Cleanup(files, h.path)
  /\ Replace(userSessions, orphans, done, h.u, CancelledSession(Held(i)))
  /\ Say(h.u, "cancelled")
  /\ UNCHANGED <<tokensFile, oauthCreds, youtubeCalls, everStored, budget>>

\* What bot.action('cancel') does to the session (src/bot.js 472).
CancelButton(session) == [session EXCEPT !.step = "idle"]

\* bot.action('cancel') after answerCbQuery (src/bot.js 470-473).
ActCancelRun(i) ==
  LET h == handlers[i]
      cur == userSessions[h.u]
  IN
  /\ h.k = "cancel_btn" /\ h.pc = "cb"
  /\ Commit(IF cur.step = "none" THEN userSessions
            ELSE [userSessions EXCEPT ![h.u] = CancelButton(cur)],
            orphans, [handlers EXCEPT ![i] = FreeHandler])
  /\ Say(h.u, "cancelled")
  /\ UNCHANGED <<tokensFile, oauthCreds, files, youtubeCalls, everStored, budget>>

\* bot.action('cancel_auth') after answerCbQuery (src/bot.js 461-464).
ActCancelAuthRun(i) ==
  LET h == handlers[i]
      cur == userSessions[h.u]
  IN
  /\ h.k = "cancel_auth" /\ h.pc = "cb"
  /\ Commit(IF cur.step = "none" THEN userSessions
            ELSE [userSessions EXCEPT ![h.u].authStep = Null],
            orphans, [handlers EXCEPT ![i] = FreeHandler])
  /\ Say(h.u, "auth_cancelled")
  /\ UNCHANGED <<tokensFile, oauthCreds, files, youtubeCalls, everStored, budget>>

\* What setPrivacy does to the session (src/bot.js 701-702).
PrivacyChosen(session, privacy) ==
  [session EXCEPT !.videoInfo.privacyStatus = privacy, !.step = "awaiting_tags"]

\* setPrivacy after answerCbQuery (src/bot.js 697-709); without an entry
\* in the Map the first assignment throws.
SetPrivacy(i) ==
  LET h == handlers[i]
      cur == userSessions[h.u]
  IN
  /\ h.k = "privacy" /\ h.pc = "cb"
  /\ IF cur.step = "none"
     THEN Goto(i, FreeHandler) /\ Silent
     ELSE /\ Commit([userSessions EXCEPT ![h.u] = PrivacyChosen(cur, h.res)],
                    orphans, [handlers EXCEPT ![i] = FreeHandler])
          /\ Say(h.u, "ask_tags")
  /\ UNCHANGED <<tokensFile, oauthCreds, files, youtubeCalls, everStored, budget>>

\* deleteTokens, the read (src/uploader.js 63-65): without a file there is
\* nothing to do and /logout goes on at once.
DeleteTokensRead(i) ==
  LET h == handlers[i] IN
  /\ h.k = "logout" /\ h.pc = "dt_read"
  /\ IF tokensFile.exists
     THEN /\ Goto(i, [h EXCEPT !.pc = "dt_write",
                               !.snap = DeleteTokensEntry(tokensFile.all, h.u)])
          /\ Silent
     ELSE /\ Replace(userSessions, orphans, [handlers EXCEPT ![i] = FreeHandler],
                     h.u, NoSession)
          /\ Say(h.u, "logged_out")
  /\ UNCHANGED <<tokensFile, oauthCreds, files, youtubeCalls, everStored, budget>>

\* deleteTokens, the write, and the rest of /logout (src/uploader.js 66,
\* src/bot.js 276-282).
DeleteTokensWrite(i) ==
  LET h == handlers[i] IN
  /\ h.k = "logout" /\ h.pc = "dt_write"
  /\ \E written \in StorageOutcomes :
       /\ tokensFile' = IF written THEN [exists |-> TRUE, all |-> h.snap]
                        ELSE tokensFile
       /\ Say(h.u, IF written THEN "logged_out" ELSE "session_cleared")
  /\ Replace(userSessions, orphans, [handlers EXCEPT ![i] = FreeHandler],
             h.u, NoSession)
  /\ UNCHANGED <<oauthCreds, files, youtubeCalls, everStored, budget>>

\* --------------------------------------------------- the auth sub-flow
\* handleAuthCode after handleAuthCallback returned (src/bot.js 637-640):
\* the entry the Map holds now, if any, leaves awaiting_code.
AuthCodeDone(us, u) ==
  IF us[u].step = "none" THEN us ELSE [us EXCEPT ![u].authStep = Null]

\* How the 'processing' reply and getToken(code) can end.
ExchangeOutcomes(code) ==
  IF faults
  THEN {"reply_failed", "rejected"} \cup (IF code \in AuthCodes THEN {"tokens"} ELSE {})
  ELSE IF code \in AuthCodes THEN {"tokens"} ELSE {"rejected"}

\* handleAuthCode: the 'processing' reply, then getToken(code) answers
\* (src/bot.js 633-635, src/uploader.js 88-91).
AuthExchange(i) ==
  LET h == handlers[i] IN
  /\ h.k = "code" /\ h.pc = "ac_exch"
  /\ \E outcome \in ExchangeOutcomes(h.arg) :
       CASE outcome = "reply_failed" ->
              /\ Goto(i, FreeHandler)
              /\ UNCHANGED oauthCreds /\ Silent
         [] outcome = "rejected" ->
              /\ Commit(AuthCodeDone(userSessions, h.u), orphans,
                        [handlers EXCEPT ![i] = FreeHandler])
              /\ Say(h.u, "auth_failed")
              /\ UNCHANGED oauthCreds
         [] OTHER ->
              /\ oauthCreds' = [owner |-> h.u, tok |-> "valid"]
              /\ Goto(i, [h EXCEPT !.pc = "ac_info"])
              /\ Silent
  /\ UNCHANGED <<tokensFile, files, youtubeCalls, everStored, budget>>

\* handleAuthCallback: userinfo.get answers (src/uploader.js 93-101).
AuthUserInfo(i) ==
  LET h == handlers[i] IN
  /\ h.k = "code" /\ h.pc = "ac_info"
  /\ \E ok \in RemoteAnswers :
       IF ok
       THEN Goto(i, [h EXCEPT !.pc = "st_read"]) /\ Silent
       ELSE /\ Commit(AuthCodeDone(userSessions, h.u), orphans,
                      [handlers EXCEPT ![i] = FreeHandler])
            /\ Say(h.u, "auth_failed")
  /\ UNCHANGED <<tokensFile, oauthCreds, files, youtubeCalls, everStored, budget>>

\* saveTokens, the read (src/uploader.js 30-39).
SaveTokensRead(i) ==
  LET h == handlers[i] IN
  /\ h.k = "code" /\ h.pc = "st_read"
  /\ Goto(i, [h EXCEPT !.pc = "st_write",
                       !.snap = SaveTokensMerge(tokensFile, h.u, "valid")])
  /\ Silent
  /\ UNCHANGED <<tokensFile, oauthCreds, files, youtubeCalls, everStored, budget>>

\* saveTokens, the write, and the rest of handleAuthCode (src/uploader.js
\* 41-42, 103-109, src/bot.js 637-659).
SaveTokensWrite(i) ==
  LET h == handlers[i] IN
  /\ h.k = "code" /\ h.pc = "st_write"
  /\ \E written \in StorageOutcomes :
       /\ tokensFile' = IF written THEN [exists |-> TRUE, all |-> h.snap]
                        ELSE tokensFile
       /\ everStored' = [everStored EXCEPT ![h.u] = @ \/ written]
  /\ Commit(AuthCodeDone(userSessions, h.u), orphans,
            [handlers EXCEPT ![i] = FreeHandler])
  /\ Say(h.u, "auth_success")
  /\ UNCHANGED <<oauthCreds, files, youtubeCalls, budget>>

\* ---------------------------------------------------------- acquisition
\* handleVideoFile: the 'downloading' reply, then getFileLink answers
\* (src/bot.js 530-536, 565-568).
VideoGetLink(i) ==
  LET h == handlers[i] IN
  /\ h.k = "video" /\ h.pc = "vf_link"
  /\ \E outcome \in (IF faults THEN {"reply_failed", "link_failed", "link"}
                    ELSE {"link"}) :
       CASE outcome = "reply_failed" ->
              Goto(i, FreeHandler) /\ Silent
         [] outcome = "link_failed" ->
              /\ Continue(i, [Held(i) EXCEPT !.step = "idle"], FreeHandler)
              /\ Say(h.u, "error")
         [] OTHER ->
              /\ Continue(i, [Held(i) EXCEPT !.step = "downloading"],
                          [h EXCEPT !.pc = "dl"])
              /\ Silent
  /\ UNCHANGED <<tokensFile, oauthCreds, files, youtubeCalls, everStored, budget>>

\* handleUrl after the 'processing link' reply (src/bot.js 584-593).
UrlStart(i) ==
  LET h == handlers[i] IN
  /\ h.k = "url" /\ h.pc = "url_go"
  /\ \E sent \in Delivery :
       IF sent
       THEN /\ Continue(i, [Held(i) EXCEPT !.step = "downloading"],
                        [h EXCEPT !.pc = "url_call"])
            /\ Say(h.u, "downloading")
       ELSE Goto(i, FreeHandler) /\ Silent
  /\ UNCHANGED <<tokensFile, oauthCreds, files, youtubeCalls, everStored, budget>>

\* handleUrl after the 'downloading from URL' reply: downloadDirectUrl is
\* called with the file name url_<Date.now()>.mp4 (src/bot.js 602-609).
UrlCall(i) ==
  LET h == handlers[i] IN
  /\ h.k = "url" /\ h.pc = "url_call"
  /\ \E sent \in Delivery, now \in Clock :
       IF sent
       THEN Goto(i, [h EXCEPT !.pc = "dl", !.path = now])
       ELSE Goto(i, FreeHandler)
  /\ Silent
  /\ UNCHANGED <<tokensFile, oauthCreds, files, youtubeCalls, everStored, budget>>

\* How a transfer can end: the request fails before any byte is written,
\* the stream breaks half-way, or the file is written with some size.
TransferOutcomes ==
  IF faults THEN {"request_failed", "stream_failed", "empty", "fits", "oversize"}
  ELSE {"fits"}

TransferredSize(outcome) ==
  CASE outcome = "empty" -> 0
    [] outcome = "fits" -> MaxSize
    [] outcome = "oversize" -> MaxSize + 1
    [] OTHER -> NoSize

\* downloadTelegramFile / downloadDirectUrl: does the call report success
\* (src/uploader.js 289-307, 362-375).  Only the Telegram download rejects
\* an empty file.
DownloadSucceeds(kind, outcome) ==
  /\ outcome \in {"empty", "fits", "oversize"}
  /\ TransferredSize(outcome) <= MaxSize
  /\ ~(kind = "video" /\ TransferredSize(outcome) = 0)

\* The scratch directory after the call: a written file stays unless the
\* size checks removed it (src/uploader.js 286-299, 360-367).
DownloadFiles(fs, kind, path, outcome) ==
  IF outcome = "request_failed" THEN fs
  ELSE IF outcome = "stream_failed" THEN fs \cup {path}
  ELSE IF DownloadSucceeds(kind, outcome) THEN fs \cup {path}
  ELSE fs \ {path}

\* The session after a successful acquisition (src/bot.js 551-556, 617-622).
Acquired(session, path, size) ==
  [session EXCEPT
     !.filePath = path,
     !.videoInfo = [EmptyInfo EXCEPT !.mimeType = "video/mp4", !.size = size],
     !.step = "awaiting_title"]

\* The acquisition call returns and the handler finishes (src/bot.js
\* 546-568, 612-629).  In handleVideoFile a failing last reply lands in the
\* catch block, which sets step to idle.
DownloadDone(i) ==
  LET h == handlers[i] IN
  /\ h.k \in {"video", "url"} /\ h.pc = "dl"
  /\ \E outcome \in TransferOutcomes, sent \in Delivery :
       /\ files' = DownloadFiles(files, h.k, h.path, outcome)
       /\ IF DownloadSucceeds(h.k, outcome)
          THEN LET got == Acquired(Held(i), h.path, TransferredSize(outcome)) IN
               IF sent \/ h.k = "url"
               THEN Continue(i, got, FreeHandler) /\ Say(h.u, "ask_title")
               ELSE Continue(i, [got EXCEPT !.step = "idle"], FreeHandler)
                    /\ Say(h.u, "error")
          ELSE /\ Continue(i, [Held(i) EXCEPT !.step = "idle"], FreeHandler)
               /\ Say(h.u, "download_failed")
  /\ UNCHANGED <<tokensFile, oauthCreds, youtubeCalls, everStored, budget>>

\* ------------------------------------------------- Drive share links
\* Whether the literal text lit stands in t at position k.
Occurs(t, lit, k) ==
  /\ k + Len(lit) - 1 <= Len(t)
  /\ SubSeq(t, k, k + Len(lit) - 1) = lit

\* The same search with the capture running to the end of the text.
MatchToEnd(t, lit, stop) ==
  LET starts == {k \in 1..Len(t) :
                   /\ Occurs(t, lit, k)
                   /\ k + Len(lit) <= Len(t)
                   /\ t[k + Len(lit)] # stop}
  IN IF starts = {} THEN Unset
     ELSE SubSeq(t, Min(starts) + Len(lit), Len(t))

\* String.prototype.match with a pattern /lit([^stop]+)/: the leftmost
\* place where lit is followed by a character other than stop, and the
\* longest run of such characters from there; Unset when there is none.
MatchCapture(t, lit, stop) ==
  LET starts == {k \in 1..Len(t) :
                   /\ Occurs(t, lit, k)
                   /\ k + Len(lit) <= Len(t)
                   /\ t[k + Len(lit)] # stop}
  IN IF starts = {} THEN Unset
     ELSE LET from == Min(starts) + Len(lit)
              stops == {j \in from..Len(t) : t[j] = stop}
          IN SubSeq(t, from, IF stops = {} THEN Len(t) ELSE Min(stops) - 1)

\* urlPatterns (src/uploader.js 389-394), in the order they are tried.
UrlPatterns ==
  <<[lit |-> <<"/", "d", "/">>, stop |-> "/"],
    [lit |-> <<"i", "d", "=">>, stop |-> "&"],
    [lit |-> <<"/", "f", "i", "l", "e", "/", "d", "/">>, stop |-> "/"],
    [lit |->
        <<"d", "r", "i", "v", "e", ".", "g", "o", "o", "g", "l", "e", ".",
          "c", "o", "m", "/", "o", "p", "e", "n", "?", "i", "d", "=">>,
     stop |-> "&"]>>

\* The loop over urlPatterns (src/uploader.js 396-402): the capture of the
\* first pattern that matches, Unset when none does.
DriveFileId(url) ==
  LET hits == {p \in 1..Len(UrlPatterns) :
                 MatchCapture(url, UrlPatterns[p].lit, UrlPatterns[p].stop) # Unset}
  IN IF hits = {} THEN Unset
     ELSE MatchCapture(url, UrlPatterns[Min(hits)].lit, UrlPatterns[Min(hits)].stop)

DriveEndpoint ==
  <<"h", "t", "t", "p", "s", ":", "/", "/", "d", "r", "i", "v", "e", ".",
    "g", "o", "o", "g", "l", "e", ".", "c", "o", "m", "/", "u", "c", "?",
    "e", "x", "p", "o", "r", "t", "=", "d", "o", "w", "n", "l", "o", "a",
    "d", "&", "i", "d", "=">>

\* downloadUrl (src/uploader.js 409)
DriveDownloadUrl(fileId) == DriveEndpoint \o fileId

\* ------------------------------------------------------- upload gateway
\* A substring that cuts nothing: the variant C19 is measured against.
WholeString(t, n) == t

\* String.prototype.substring(0, n)
Substring(t, n) == IF Len(t) <= n THEN t ELSE SubSeq(t, 1, n)

\* tags.split(','): the pieces between the commas, in order.
RECURSIVE Split(_)
Split(t) ==
  LET commas == {k \in 1..Len(t) : t[k] = ","} IN
  IF commas = {} THEN <<t>>
  ELSE LET c == Min(commas) IN
       <<SubSeq(t, 1, c - 1)>> \o Split(SubSeq(t, c + 1, Len(t)))

NonEmpty(piece) == Len(piece) > 0

\* The tag list uploadVideo sends (src/uploader.js 178-182).
ParseTags(tags) ==
  IF tags = Unset THEN <<>>
  ELSE LET pieces == Split(tags)
           trimmed == [k \in 1..Len(pieces) |-> Trim(pieces[k])]
           kept == SelectSeq(trimmed, NonEmpty)
       IN IF Len(kept) <= TagsMax THEN kept ELSE SubSeq(kept, 1, TagsMax)

\* The request youtube.videos.insert is called with (src/uploader.js
\* 174-201).
VideoMetadata(videoData) ==
  [title |-> Substring(videoData.title, TitleMax),
   description |-> IF videoData.description = Unset THEN <<>>
                   ELSE Substring(videoData.description, DescriptionMax),
   tags |-> ParseTags(videoData.tags),
   categoryId |-> "22",
   privacyStatus |-> IF videoData.privacyStatus = NoValue THEN "private"
                     ELSE videoData.privacyStatus,
   mimeType |-> IF videoData.mimeType = NoValue THEN "video/mp4"
                ELSE videoData.mimeType,
   body |-> videoData.filePath]

\* How far uploadVideo gets (src/uploader.js 163-201): without tokens it
\* throws; title.substring throws on a missing title; createReadStream
\* throws on a missing filePath; otherwise videos.insert is called.
UploadReach(tokens, videoData) ==
  IF tokens = "none" THEN "not_authenticated"
  ELSE IF videoData.title = Unset THEN "no_title"
  ELSE IF videoData.filePath = NoValue THEN "no_file"
  ELSE "insert"

\* The videoData handleTags passes to uploadVideo (src/bot.js 724).
UploadArgument(session) == session.videoInfo

\* handleTags after the 'starting upload' reply: uploadVideo is called and
\* suspends in getTokens (src/bot.js 721-724).
TagsCallUpload(i) ==
  LET h == handlers[i] IN
  /\ h.k = "tags" /\ h.pc = "tg_reply"
  /\ \E sent \in Delivery :
       IF sent
       THEN Goto(i, [h EXCEPT !.pc = "ul_tokens", !.path = Held(i).filePath])
       ELSE Goto(i, FreeHandler)
  /\ Silent
  /\ UNCHANGED <<tokensFile, oauthCreds, files, youtubeCalls, everStored, budget>>

\* The same invocation with a second attempt after the first: the variant
\* C20 is measured against.
CreateVideoCallsRetried(tokens, videoData) ==
  IF UploadReach(tokens, videoData) = "insert"
  THEN <<VideoMetadata(videoData), VideoMetadata(videoData)>>
  ELSE <<>>

\* The youtube.videos.insert calls one invocation of uploadVideo issues
\* (src/uploader.js 165-200): one, once every argument of the call could
\* be evaluated.
CreateVideoCalls(tokens, videoData) ==
  IF UploadReach(tokens, videoData) = "insert"
  THEN <<VideoMetadata(videoData)>>
  ELSE <<>>

\* uploadVideo from getTokens to its result, and the reply that reports it
\* (src/uploader.js 165-222, src/bot.js 726-748).
UploadVideoRun(i) ==
  LET h == handlers[i]
      tokens == GetTokens(tokensFile, h.u)
      videoData == UploadArgument(Held(i))
      reach == UploadReach(tokens, videoData)
      creds == IF tokens = "none" THEN oauthCreds
               ELSE [owner |-> h.u, tok |-> tokens]
  IN
  /\ h.k = "tags" /\ h.pc = "ul_tokens"
  /\ oauthCreds' = creds
  /\ youtubeCalls' = youtubeCalls \o CreateVideoCalls(tokens, videoData)
  /\ \E ok \in IF reach = "insert" /\ creds.tok = "valid"
               THEN (IF faults THEN {TRUE, FALSE} ELSE {TRUE}) ELSE {FALSE} :
       /\ Goto(i, [h EXCEPT !.pc = "tg_fin",
                            !.res = IF ok THEN "success" ELSE reach])
       /\ Say(h.u, IF ok THEN "upload_success" ELSE "upload_failed")
  /\ UNCHANGED <<tokensFile, files, everStored, budget>>

\* The reset in handleTags' finally block (src/bot.js 756-758).
ResetSession(session) ==
  [session EXCEPT !.step = "idle", !.videoInfo = EmptyInfo, !.filePath = Null]

\* The file the finally block hands to cleanup (src/bot.js 751-753).
FinallyTarget(session, atCallStart) == session.filePath

\* handleTags' finally block up to the await in cleanup (src/bot.js
\* 749-753); without a filePath it runs through.
TagsFinally(i) ==
  LET h == handlers[i]
      target == FinallyTarget(Held(i), h.path)
  IN
  /\ h.k = "tags" /\ h.pc = "tg_fin"
  /\ IF target = Null
     THEN Continue(i, ResetSession(Held(i)), FreeHandler) /\ UNCHANGED files
     ELSE /\ files' = Cleanup(files, target)
          /\ Goto(i, [h EXCEPT !.pc = "tg_reset"])
  /\ Silent
  /\ UNCHANGED <<tokensFile, oauthCreds, youtubeCalls, everStored, budget>>

\* handleTags' finally block after cleanup returned (src/bot.js 755-758).
TagsReset(i) ==
  LET h == handlers[i] IN
  /\ h.k = "tags" /\ h.pc = "tg_reset"
  /\ Continue(i, ResetSession(Held(i)), FreeHandler)
  /\ Silent
  /\ UNCHANGED <<tokensFile, oauthCreds, files, youtubeCalls, everStored, budget>>

\* --------------------------------------------------- direct calls
\* The uploader's functions called one at a time, each call running from
\* its start to its return with nothing else in between.
MaxUnitCalls == 2
MaxStoreCalls == 4
MaxCreateCalls == 1

\* The credential files a call can find.
UnitTokens ==
  {[exists |-> FALSE, all |-> NoTokens]} \cup
  {[exists |-> TRUE, all |-> a] : a \in [Users -> {"none", "valid"}]}

\* Texts of a given length: a run of the alphabet, and single-letter tags
\* joined by commas.
Filler(n) == [k \in 1..n |-> LowerCase[((k - 1) % 26) + 1]]
TagString(n) ==
  [k \in 1..(2 * n - 1) |->
     IF k % 2 = 1 THEN LowerCase[((((k + 1) \div 2) - 1) % 26) + 1] ELSE ","]
TxtTags == <<" ", "a", ",", " ", "b", " ", ",", ",", "c", " ", "d", ",", " ">>

\* The videoData records uploadVideo is given: a plain one, and the plain
\* one with one property changed (to a boundary length, past it, or left
\* out), and one with every text too long.
PlainData ==
  [EmptyInfo EXCEPT !.title = TxtDemo, !.filePath = "t1"]
VideoDatas ==
  {PlainData} \cup
  {[PlainData EXCEPT !.title = t] :
     t \in {Unset, <<>>, Filler(TitleMax), Filler(TitleMax + 1)}} \cup
  {[PlainData EXCEPT !.description = d] :
     d \in {<<>>, TxtDemo, Filler(DescriptionMax), Filler(DescriptionMax + 1)}} \cup
  {[PlainData EXCEPT !.tags = g] :
     g \in {<<>>, TxtTags, TagString(TagsMax), TagString(TagsMax + 1)}} \cup
  {[PlainData EXCEPT !.privacyStatus = p] : p \in Privacies} \cup
  {[PlainData EXCEPT !.filePath = NoValue],
   [PlainData EXCEPT !.title = Filler(TitleMax + 1),
                     !.description = Filler(DescriptionMax + 1),
                     !.tags = TagString(TagsMax + 1),
                     !.privacyStatus = "unlisted"]}

\* Drive share links of the four shapes, built around a file id, and links
\* of none of them.
DriveHost ==
  <<"h", "t", "t", "p", "s", ":", "/", "/", "d", "r", "i", "v", "e", ".",
    "g", "o", "o", "g", "l", "e", ".", "c", "o", "m">>
DriveIds ==
  {<<"A", "B", "C", "1", "2", "3">>, <<"1", "a", "-", "_", "Z">>, <<"d">>}
DriveShapes == {"d", "id", "file", "open"}
ShapeUrl(shape, id) ==
  CASE shape = "d" ->
         DriveHost \o <<"/", "d", "/">> \o id \o <<"/", "e", "d", "i", "t">>
    [] shape = "id" ->
         DriveHost \o <<"/", "u", "c", "?", "i", "d", "=">> \o id
           \o <<"&", "e", "x", "p", "o", "r", "t", "=", "d", "o", "w", "n",
                "l", "o", "a", "d">>
    [] shape = "file" ->
         DriveHost \o <<"/", "f", "i", "l", "e", "/", "d", "/">> \o id
           \o <<"/", "v", "i", "e", "w">>
    [] OTHER ->
         DriveHost \o <<"/", "o", "p", "e", "n", "?", "i", "d", "=">> \o id
OtherDriveUrls ==
  {DriveHost,
   DriveHost \o <<"/", "d", "r", "i", "v", "e", "/", "f", "o", "l", "d", "e",
                  "r", "s", "/", "F", "1">>,
   DriveHost \o <<"/", "f", "i", "l", "e", "/", "d", "/">>,
   DriveHost \o <<"/", "f", "i", "l", "e", "/", "d", "/", "/", "v", "i", "e", "w">>,
   DriveHost \o <<"/", "o", "p", "e", "n", "?", "i", "d", "=">>,
   DriveHost \o <<"/", "u", "c", "?", "i", "d", "=", "&", "x", "=", "1">>}
DriveUrls ==
  {ShapeUrl(shape, id) : shape \in DriveShapes, id \in DriveIds} \cup OtherDriveUrls

\* A call leaves the bot's sessions and handlers alone and sends no message.
Called(fn, arg, out) ==
  /\ budget > 0
  /\ budget' = budget - 1
  /\ Settle(userSessions, orphans, handlers)
  /\ lastReply' = lastReply
  /\ everStored' = everStored
  /\ probe' = [fn |-> fn, arg |-> arg, out |-> out,
               prevDeleted |-> IF probe.fn = "deleteTokens" THEN probe.arg ELSE 0]

\* deleteTokens, the whole call (src/uploader.js 61-73): false only when
\* the file is there and reading or writing it throws.
UnitDeleteTokens(u) ==
  \E written \in StorageOutcomes :
    /\ tokensFile' = IF tokensFile.exists /\ written
                     THEN [exists |-> TRUE,
                           all |-> DeleteTokensEntry(tokensFile.all, u)]
                     ELSE tokensFile
    /\ Called("deleteTokens", u, ~tokensFile.exists \/ written)
    /\ UNCHANGED <<oauthCreds, files, youtubeCalls>>

\* downloadGoogleDrive, the whole call (src/uploader.js 385-425): without a
\* file id nothing is requested; with one, downloadDirectUrl sends its HEAD
\* and its GET to the rewritten address (src/uploader.js 327-343), which
\* starts with http, and the transfer ends one way or another.
UnitDownloadGoogleDrive(url) ==
  LET fileId == DriveFileId(url) IN
  IF fileId = Unset
  THEN /\ Called("downloadGoogleDrive", url,
                 [success |-> FALSE, error |-> "invalid_drive_format",
                  requests |-> <<>>])
       /\ UNCHANGED <<tokensFile, oauthCreds, files, youtubeCalls>>
  ELSE \E outcome \in TransferOutcomes, now \in Clock :
         /\ files' = DownloadFiles(files, "url", now, outcome)
         /\ Called("downloadGoogleDrive", url,
                   [success |-> DownloadSucceeds("url", outcome),
                    error |-> IF DownloadSucceeds("url", outcome) THEN ""
                              ELSE "url_download_failed",
                    requests |-> <<DriveDownloadUrl(fileId),
                                   DriveDownloadUrl(fileId)>>])
         /\ UNCHANGED <<tokensFile, oauthCreds, youtubeCalls>>

\* uploadVideo, the whole call (src/uploader.js 162-223).
UnitUploadVideo(u, videoData) ==
  LET tokens == GetTokens(tokensFile, u)
      reach == UploadReach(tokens, videoData)
      creds == IF tokens = "none" THEN oauthCreds
               ELSE [owner |-> u, tok |-> tokens]
      issued == CreateVideoCalls(tokens, videoData)
  IN
  /\ Len(youtubeCalls) < MaxCreateCalls
  /\ oauthCreds' = creds
  /\ youtubeCalls' = youtubeCalls \o issued
  /\ \E ok \in IF reach = "insert" /\ creds.tok = "valid"
               THEN (IF faults THEN {TRUE, FALSE} ELSE {TRUE}) ELSE {FALSE} :
       Called("uploadVideo", [userId |-> u, videoData |-> videoData],
              [success |-> ok, error |-> IF ok THEN "" ELSE reach,
               calls |-> issued])
  /\ UNCHANGED <<tokensFile, files>>

\* handleTitle, handleDescription and handleTags given a text, on a session
\* that waits for it: what the session's videoInfo holds afterwards.
UnitHandleText(field, text) ==
  LET waiting == [DefaultSession(1) EXCEPT !.filePath = "t1"]
      after == CASE field = "title" -> HandleTitle(waiting, text)
                 [] field = "description" -> HandleDescription(waiting, text)
                 [] OTHER -> HandleTagsEnter(waiting, text)
  IN
  /\ Called("handleText", [field |-> field, text |-> text],
            UploadArgument(after))
  /\ UNCHANGED <<tokensFile, oauthCreds, files, youtubeCalls>>

\* The texts a user sends for the title, the description and the tags.
LongTexts ==
  {TxtDemo, TxtSkip, TxtTags, Filler(TitleMax + 1), Filler(DescriptionMax + 1),
   TagString(TagsMax + 1)}

\* The credential store alone: deletions, one after another.
InitStore == InitWith(UnitTokens, MaxStoreCalls, BOOLEAN)
NextStore == \E u \in Users : UnitDeleteTokens(u)
SpecStore == InitStore /\ [][NextStore]_vars

\* Drive links alone.
InitDrive == InitWith(UnitTokens, MaxUnitCalls, BOOLEAN)
NextDrive == \E url \in DriveUrls : UnitDownloadGoogleDrive(url)
SpecDrive == InitDrive /\ [][NextDrive]_vars

\* The upload call and the handlers that collect what it is given.
InitUnits == InitWith(UnitTokens, MaxUnitCalls, BOOLEAN)
NextUnits ==
  \/ \E u \in Users, videoData \in VideoDatas : UnitUploadVideo(u, videoData)
  \/ \E field \in {"title", "description", "tags"}, text \in LongTexts :
       UnitHandleText(field, text)
SpecUnits == InitUnits /\ [][NextUnits]_vars

\* ------------------------------------------------------ specification
\* Inbound updates of the users in U: the upload flow, with texts T, videos
\* F, documents D and privacy buttons P.
FlowEvents(U, T, F, D, P) ==
  \/ \E u \in U : CmdUpload(u)
  \/ \E u \in U : ActManualUpload(u)
  \/ \E u \in U, privacy \in P : ActPrivacy(u, privacy)
  \/ \E u \in U, f \in F : OnVideo(u, f)
  \/ \E u \in U, doc \in D : OnDocument(u, doc)
  \/ \E u \in U, raw \in T : OnText(u, raw)

CancelEvents(U) ==
  \/ \E u \in U : CmdCancel(u)
  \/ \E u \in U : ActCancel(u)

AuthEvents(U) ==
  \/ \E u \in U : CmdAuth(u)
  \/ \E u \in U : CmdLogout(u)
  \/ \E u \in U : ActCancelAuth(u)

\* A suspended handler resumes.  VideoGetLink is not among the steps: no
\* file name gets past the extension check in AuthGranted.
FlowSteps ==
  \/ \E i \in Slots : CheckAuthRead(i)
  \/ \E i \in Slots : CheckAuthCall(i)
  \/ \E i \in Slots : UploadSetStep(i)
  \/ \E i \in Slots : SetPrivacy(i)
  \/ \E i \in Slots : UrlStart(i)
  \/ \E i \in Slots : UrlCall(i)
  \/ \E i \in Slots : DownloadDone(i)
  \/ \E i \in Slots : TagsCallUpload(i)
  \/ \E i \in Slots : UploadVideoRun(i)
  \/ \E i \in Slots : TagsFinally(i)
  \/ \E i \in Slots : TagsReset(i)

CancelSteps ==
  \/ \E i \in Slots : CancelCleanup(i)
  \/ \E i \in Slots : ActCancelRun(i)

AuthSteps ==
  \/ \E i \in Slots : AuthSetStep(i)
  \/ \E i \in Slots : ChannelInfoRead(i)
  \/ \E i \in Slots : ActCancelAuthRun(i)
  \/ \E i \in Slots : DeleteTokensRead(i)
  \/ \E i \in Slots : DeleteTokensWrite(i)
  \/ \E i \in Slots : AuthExchange(i)
  \/ \E i \in Slots : AuthUserInfo(i)
  \/ \E i \in Slots : SaveTokensRead(i)
  \/ \E i \in Slots : SaveTokensWrite(i)

\* No handler is suspended: the bot has answered everything it was sent.
Quiet == \A i \in Slots : handlers[i].k = "free"

\* Every kind of update from either user, a short run.  User 1 starts with
\* a credential record, user 2 with none.
Init ==
  InitWith({[exists |-> TRUE, all |-> [NoTokens EXCEPT ![1] = "valid"]]},
           MaxEvents, {TRUE})

Next ==
  \/ FlowEvents(Users, {TxtDemo, TxtCode, TxtUrl}, {"f1"}, {DocClip}, {"public"})
  \/ CancelEvents(Users)
  \/ AuthEvents(Users)
  \/ FlowSteps
  \/ CancelSteps
  \/ AuthSteps

Spec == Init /\ [][Next]_vars

\* One user, whose credential is stored or not, in the upload flow with its
\* cancellations; user 2 never writes to the bot.  A longer run.
FlowTokens ==
  {[exists |-> FALSE, all |-> NoTokens]} \cup
  {[exists |-> TRUE, all |-> [NoTokens EXCEPT ![1] = t]] : t \in {"valid", "invalid"}}

InitFlow == InitWith(FlowTokens, MaxFlowEvents, {TRUE})

NextFlow ==
  \/ FlowEvents({1}, {TxtDemo, TxtSkipTyped, TxtUrl}, {"f1"}, {DocClip}, {"public"})
  \/ CancelEvents({1})
  \/ FlowSteps
  \/ CancelSteps

SpecFlow == InitFlow /\ [][NextFlow]_vars

\* Two authenticated users who each start an upload and send texts.
InitDuo ==
  InitWith({[exists |-> TRUE, all |-> [u \in Users |-> "valid"]]},
           MaxDuoEvents, {TRUE})

NextDuo ==
  \/ \E u \in Users : CmdUpload(u)
  \/ \E u \in Users, raw \in {TxtDemo, TxtUrl} : OnText(u, raw)
  \/ \E i \in Slots : CheckAuthRead(i)
  \/ \E i \in Slots : CheckAuthCall(i)
  \/ \E i \in Slots : UploadSetStep(i)
  \/ \E i \in Slots : UrlStart(i)
  \/ \E i \in Slots : UrlCall(i)
  \/ \E i \in Slots : DownloadDone(i)

SpecDuo == InitDuo /\ [][NextDuo]_vars

\* The demo conversation: user 1 starts an upload (by command or button),
\* sends a video, "Demo", "skip", clicks Public and sends "skip", each once
\* the bot has answered the one before; with and without faults, with and
\* without a credential record.
InitDemo == InitWith(FlowTokens, 6, BOOLEAN)

NextDemo ==
  \/ budget = 6 /\ Quiet /\ CmdUpload(1)
  \/ budget = 6 /\ Quiet /\ ActManualUpload(1)
  \/ budget = 5 /\ Quiet /\ \E f \in {"f1", "f2"} : OnVideo(1, f)
  \/ budget = 4 /\ Quiet /\ OnText(1, TxtDemo)
  \/ budget = 3 /\ Quiet /\ OnText(1, TxtSkip)
  \/ budget = 2 /\ Quiet /\ ActPrivacy(1, "public")
  \/ budget = 1 /\ Quiet /\ OnText(1, TxtSkip)
  \/ \E i \in Slots : CheckAuthRead(i)
  \/ \E i \in Slots : CheckAuthCall(i)
  \/ \E i \in Slots : UploadSetStep(i)
  \/ \E i \in Slots : SetPrivacy(i)
  \/ \E i \in Slots : TagsCallUpload(i)
  \/ \E i \in Slots : UploadVideoRun(i)
  \/ \E i \in Slots : TagsFinally(i)

SpecDemo == InitDemo /\ [][NextDemo]_vars

\* Acquisition: an authenticated user starts uploads and sends videos at
\* and over the size limit, documents and a link, with and without faults.
MaxMediaEvents == 4

InitMedia ==
  InitWith({[exists |-> TRUE, all |-> [NoTokens EXCEPT ![1] = "valid"]]},
           MaxMediaEvents, BOOLEAN)

MediaSteps ==
  \/ \E i \in Slots : CheckAuthRead(i)
  \/ \E i \in Slots : CheckAuthCall(i)
  \/ \E i \in Slots : UploadSetStep(i)
  \/ \E i \in Slots : UrlStart(i)
  \/ \E i \in Slots : UrlCall(i)
  \/ \E i \in Slots : DownloadDone(i)

NextMedia ==
  \/ CmdUpload(1)
  \/ \E f \in {"f1", "f3"} : OnVideo(1, f)
  \/ \E doc \in {DocClip, DocNote, DocOdd} : OnDocument(1, doc)
  \/ OnText(1, TxtUrl)
  \/ MediaSteps

SpecMedia == InitMedia /\ [][NextMedia]_vars

\* The same runs where every call a handler awaits returns and the event
\* loop resumes the handler: no suspended handler waits for ever.  Nothing
\* else in the process runs on its own: src/ sets no timer.
SpecMediaLive == SpecMedia /\ WF_vars(MediaSteps)

\* One conversation carried twice: an authenticated user sends /upload, a
\* link, a title, "skip", clicks Public and sends "skip", each once the bot
\* has answered the one before; then, without waiting for the upload to
\* finish, /upload and a link again.
MaxAgainEvents == 8

InitAgain ==
  InitWith({[exists |-> TRUE, all |-> [NoTokens EXCEPT ![1] = "valid"]]},
           MaxAgainEvents, BOOLEAN)

NextAgain ==
  \/ budget = MaxAgainEvents /\ Quiet /\ CmdUpload(1)
  \/ budget = MaxAgainEvents - 1 /\ Quiet /\ OnText(1, TxtUrl)
  \/ budget = MaxAgainEvents - 2 /\ Quiet /\ OnText(1, TxtDemo)
  \/ budget = MaxAgainEvents - 3 /\ Quiet /\ OnText(1, TxtSkip)
  \/ budget = MaxAgainEvents - 4 /\ Quiet /\ ActPrivacy(1, "public")
  \/ budget = MaxAgainEvents - 5 /\ Quiet /\ OnText(1, TxtSkip)
  \/ budget = MaxAgainEvents - 6 /\ CmdUpload(1)
  \/ budget = MaxAgainEvents - 7 /\ OnText(1, TxtUrl)
  \/ FlowSteps

SpecAgain == InitAgain /\ [][NextAgain]_vars

\* ---------------------------------------------------------- properties
\* Handler i resumed in this step (it moved to its next await or returned).
Stepped(i) == handlers[i].k # "free" /\ handlers'[i].pc # handlers[i].pc

\* The handlers of user u with an acquisition call, or an uploadVideo call,
\* in flight.
Acquiring(u) ==
  {i \in Slots : handlers[i].u = u /\ handlers[i].k \in {"video", "url"}
                 /\ handlers[i].pc = "dl"}
UploadsInFlight(u) ==
  {i \in Slots : handlers[i].u = u /\ handlers[i].k = "tags"
                 /\ handlers[i].pc = "ul_tokens"}

\* The session is as the middleware creates it, but for isAdmin.
Clean(session) ==
  /\ session.step = "idle"
  /\ session.authStep = Null
  /\ session.videoInfo = EmptyInfo
  /\ session.filePath = Null

\* C1: when uploadVideo has returned to handleTags and the finally block has
\* run its cleanup, the scratch file filePath named when uploadVideo was
\* called no longer exists; and when that handleTags has run to its end, the
\* session it worked on has step idle, an empty videoInfo and a null
\* filePath.
C1_UploadLeavesNothing ==
  [][\A i \in Slots :
       LET h == handlers[i] IN
       /\ (h.k = "tags" /\ h.pc = "tg_fin" /\ Stepped(i) /\ h.path # Null)
            => h.path \notin files'
       /\ (/\ h.k = "tags" /\ h.pc \in {"tg_fin", "tg_reset"}
           /\ handlers'[i].k = "free" /\ h.s = 0)
            => /\ userSessions'[h.u].step = "idle"
               /\ userSessions'[h.u].videoInfo = EmptyInfo
               /\ userSessions'[h.u].filePath = Null]_vars

\* C2 as stated: whenever an acquisition call is started (a video or URL
\* handler arrives at the download call), the tokens file holds a record
\* for the user.
C2_NoRecordNoAcquisition ==
  [][\A i \in Slots :
       (/\ handlers'[i].k \in {"video", "url"} /\ handlers'[i].pc = "dl"
        /\ (handlers[i].k # handlers'[i].k \/ handlers[i].pc # "dl"))
         => GetTokens(tokensFile, handlers'[i].u) # "none"]_vars

\* C2, for users who never authenticated: a user for whom no credential
\* record was ever stored never has an acquisition call in flight and never
\* is in awaiting_video or downloading; the /upload command and the
\* step-by-step button of such a user end in the reply that authentication
\* is required and leave the session as it was.
C2_NoAcquisitionWithoutCredential ==
  [][/\ \A u \in Users :
          ~everStored'[u] =>
             /\ \A i \in Slots :
                  ~(handlers'[i].u = u /\ handlers'[i].k \in {"video", "url"}
                    /\ handlers'[i].pc \in {"vf_link", "url_go", "url_call", "dl"})
             /\ userSessions'[u].step \notin {"awaiting_video", "downloading"}
             /\ userSessions'[u].filePath = Null
     /\ \A i \in Slots :
          LET h == handlers[i] IN
          (h.k \in {"upload", "manual"} /\ ~everStored[h.u] /\ Stepped(i))
            => /\ handlers'[i].k = "free"
               /\ lastReply' = [to |-> h.u,
                                msg |-> IF h.k = "upload" THEN "auth_required"
                                        ELSE "auth_first"]
               /\ userSessions'[h.u] = userSessions[h.u]]_vars

\* C2 witness: user 2, who never stored a credential, was just told by
\* /upload that authentication is required, and is in step idle.
C2_Witness ==
  /\ ~everStored[2]
  /\ lastReply = [to |-> 2, msg |-> "auth_required"]
  /\ userSessions[2].step = "idle"

\* C3: after the demo conversation of an authenticated user, with nothing
\* failing, exactly one videos.insert call was issued, with title "Demo",
\* empty description, empty tag list and privacy public, and the session is
\* back in idle.
C3_DemoUploadsOnce ==
  (~faults /\ GetTokens(tokensFile, 1) = "valid" /\ budget = 0 /\ Quiet)
    => /\ Len(youtubeCalls) = 1
       /\ youtubeCalls[1].title = TxtDemo
       /\ youtubeCalls[1].description = <<>>
       /\ youtubeCalls[1].tags = <<>>
       /\ youtubeCalls[1].privacyStatus = "public"
       /\ userSessions[1].step = "idle"

\* C4: in every reachable state each user has at most one acquisition call
\* and at most one uploadVideo call in flight.
C4_OneFlowPerUser ==
  \A u \in Users :
    /\ Cardinality(Acquiring(u)) <= 1
    /\ Cardinality(UploadsInFlight(u)) <= 1

\* An update from user u is handled up to its first await.
EventOf(u) ==
  \/ FlowEvents({u}, RawTexts, FileIds, Documents, Privacies)
  \/ CancelEvents({u})
  \/ AuthEvents({u})

\* C5: the session of user u changes only in a step taken for u (a handler
\* of u resuming, or an update of u arriving), so no step taken for one user
\* touches the session of another; and a text of u in awaiting_title becomes
\* u's title.
C5_SessionsIsolated ==
  [][\A u \in Users :
       /\ userSessions'[u] # userSessions[u]
            => \/ \E i \in Slots : handlers[i].u = u /\ Stepped(i)
               \/ EventOf(u)
       /\ \A raw \in RawTexts :
            (/\ userSessions[u].step = "awaiting_title"
             /\ userSessions[u].authStep # "awaiting_code"
             /\ OnText(u, raw))
              => userSessions'[u].videoInfo.title = Trim(raw)]_vars

\* C5 witness: both users went through awaiting_title, each sent a text, and
\* each holds the own text as title.
C5_Witness ==
  /\ userSessions[1].step = "awaiting_description"
  /\ userSessions[1].videoInfo.title = TxtDemo
  /\ userSessions[2].step = "awaiting_description"
  /\ userSessions[2].videoInfo.title = TxtUrl

\* C6: a session enters awaiting_video only from idle, only with a null
\* filePath and an empty videoInfo, and only by the /upload command or the
\* step-by-step button of a user who holds a credential record.
C6_AwaitingVideoOnlyFromCleanIdle ==
  [][\A u \in Users :
       (userSessions'[u].step = "awaiting_video"
        /\ userSessions[u].step # "awaiting_video")
         => /\ userSessions[u].step = "idle"
            /\ userSessions[u].filePath = Null
            /\ userSessions[u].videoInfo = EmptyInfo
            /\ GetTokens(tokensFile, u) # "none"
            /\ \E i \in Slots :
                 /\ handlers[i].u = u
                 /\ handlers[i].k \in {"upload", "manual"}
                 /\ Stepped(i)]_vars

C8_CancelResetsEverything ==
  [][\A u \in Users :
       /\ (CmdCancel(u) /\ handlers' = handlers)
            => /\ Clean(userSessions'[u])
               /\ userSessions'[u].isAdmin = Middleware(userSessions, u)[u].isAdmin
       /\ \A i \in Slots :
            LET h == handlers[i]
                old == userSessions[u]
            IN
            (/\ h.u = u /\ h.k \in {"cancel", "cancel_btn"}
             /\ Stepped(i) /\ old.step # "none")
              => /\ Clean(userSessions'[u])
                 /\ userSessions'[u].isAdmin = old.isAdmin
                 /\ (old.filePath # Null => old.filePath \notin files')
                 /\ (h.path # Null => h.path \notin files')]_vars

\* C9: a text sent in awaiting_tags by a user whose credential record is
\* missing or invalid does not move the session to uploading: step,
\* videoInfo and filePath stay, and no scratch file is touched.
C9_TagsGatedOnAuth ==
  [][\A u \in Users, raw \in RawTexts :
       (/\ userSessions[u].step = "awaiting_tags"
        /\ userSessions[u].authStep # "awaiting_code"
        /\ GetTokens(tokensFile, u) # "valid"
        /\ OnText(u, raw))
         => /\ userSessions'[u] = userSessions[u]
            /\ files' = files]_vars

C11_StoreKeepsOtherUsers ==
  [][\A i \in Slots :
       LET h == handlers[i] IN
       (h.k \in {"code", "logout"} /\ h.pc \in {"st_write", "dt_write"}
        /\ Stepped(i))
         => \A v \in Users \ {h.u} :
              GetTokens(tokensFile', v) = GetTokens(tokensFile, v)]_vars

\* C12: whenever a user is told that authentication succeeded,
\* auth/tokens.json holds a record for that user.
C12_SuccessMeansStored ==
  [][\A u \in Users :
       lastReply' = [to |-> u, msg |-> "auth_success"]
         => GetTokens(tokensFile', u) # "none"]_vars

\* C13: when /logout has deleted the record of user u, the file holds no
\* record for u and the Map no session of u; and a record for u appears in
\* the file only by the write of a code exchange of u.
C13_LoggedOutStaysLoggedOut ==
  [][\A u \in Users :
       /\ lastReply' = [to |-> u, msg |-> "logged_out"]
            => /\ GetTokens(tokensFile', u) = "none"
               /\ userSessions'[u] = NoSession
       /\ (GetTokens(tokensFile, u) = "none" /\ GetTokens(tokensFile', u) # "none")
            => \E i \in Slots :
                 /\ handlers[i].u = u /\ handlers[i].k = "code"
                 /\ handlers[i].pc = "st_write" /\ Stepped(i)]_vars

\* C14: deleteTokens called on its own answers ok whenever the storage
\* does not fail, leaves the user without an entry and every other user's
\* entry as it was; called again for the same user right after a call
\* that answered ok, it finds no entry to remove, answers ok again under
\* the same condition, and changes nothing.
C14_DeleteIdempotent ==
  [][\A u \in Users :
       (budget' # budget /\ probe'.fn = "deleteTokens" /\ probe'.arg = u)
         => /\ ~faults => probe'.out = TRUE
            /\ probe'.out => GetTokens(tokensFile', u) = "none"
            /\ \A v \in Users \ {u} :
                 GetTokens(tokensFile', v) = GetTokens(tokensFile, v)
            /\ (probe.fn = "deleteTokens" /\ probe.arg = u /\ probe.out = TRUE)
                 => tokensFile' = tokensFile]_vars

\* deleteTokens answered ok twice in a row for one user, the second time
\* with no entry to remove, while the other user's entry is still there.
C14_Witness ==
  /\ probe.fn = "deleteTokens" /\ probe.prevDeleted = probe.arg
  /\ probe.out = TRUE /\ ~faults
  /\ \E v \in Users \ {probe.arg} : GetTokens(tokensFile, v) = "valid"

\* C15: when an acquisition ends in failure, the user is told so, the
\* session is idle with filePath null, and the scratch file the acquisition
\* was writing (absent before it ran) is not in scratch storage.
C15_FailedAcquisitionLeavesNothing ==
  [][\A i \in Slots :
       LET h == handlers[i] IN
       (h.k \in {"video", "url"} /\ h.pc = "dl" /\ Stepped(i)
          /\ lastReply' = [to |-> h.u, msg |-> "download_failed"])
         => /\ userSessions'[h.u].step = "idle"
            /\ userSessions'[h.u].filePath = Null
            /\ h.path \notin files => h.path \notin files']_vars

\* C16: an attachment that declares a size up to the maximum is not turned
\* away and goes on to the transfer, one that declares more is answered
\* 'too large' with the scratch directory untouched; a session never holds
\* a file larger than the maximum.
C16_SizeLimitInclusive ==
  [][/\ \A i \in Slots :
          LET h == handlers[i] IN
          (h.k = "video" /\ h.pc = "ca_call" /\ Stepped(i)
             /\ lastReply'.msg # "auth_first")
            => IF h.n <= MaxSize
               THEN handlers'[i].pc = "vf_link"
               ELSE /\ lastReply' = [to |-> h.u, msg |-> "too_large"]
                    /\ handlers'[i].k = "free"
                    /\ files' = files
     /\ \A u \in Users :
          userSessions'[u].filePath # Null
            => userSessions'[u].videoInfo.size <= MaxSize]_vars

\* C18: an attachment that got past the credential and size checks is
\* answered 'unsupported format' exactly when the extension of its file
\* name, in lower case, is not in the allow-list; otherwise the handler
\* goes on to the transfer, with nothing written yet.
C18_FormatCheckedByExtension ==
  [][\A i \in Slots :
       LET h == handlers[i]
           allowed == ToLowerCase(ExtName(h.arg)) \in AllowedExtensions
       IN
       (h.k = "video" /\ h.pc = "ca_call" /\ Stepped(i)
          /\ lastReply'.msg # "auth_first" /\ h.n <= MaxSize)
         => /\ (lastReply' = [to |-> h.u, msg |-> "unsupported_format"]) <=> ~allowed
            /\ allowed => handlers'[i].pc = "vf_link" /\ files' = files]_vars

\* The link of the scenario and the address it is to be fetched from.
ExampleLink ==
  <<"h", "t", "t", "p", "s", ":", "/", "/", "d", "r", "i", "v", "e", ".",
    "g", "o", "o", "g", "l", "e", ".", "c", "o", "m", "/", "f", "i", "l",
    "e", "/", "d", "/", "A", "B", "C", "1", "2", "3", "/", "v", "i", "e",
    "w">>
ExampleAddress ==
  <<"h", "t", "t", "p", "s", ":", "/", "/", "d", "r", "i", "v", "e", ".",
    "g", "o", "o", "g", "l", "e", ".", "c", "o", "m", "/", "u", "c", "?",
    "e", "x", "p", "o", "r", "t", "=", "d", "o", "w", "n", "l", "o", "a",
    "d", "&", "i", "d", "=", "A", "B", "C", "1", "2", "3">>

\* C17: for a link of one of the four shapes downloadGoogleDrive requests
\* the direct-download address of the file id the link was built around,
\* and nothing else (for https://drive.google.com/file/d/ABC123/view the
\* address ends in id=ABC123); for a link of none of the shapes it returns
\* the format error, requests nothing and writes nothing.
C17_DriveLinkResolved ==
  [][(budget' # budget /\ probe'.fn = "downloadGoogleDrive")
       => /\ \A shape \in DriveShapes, id \in DriveIds :
               probe'.arg = ShapeUrl(shape, id)
                 => \A k \in 1..Len(probe'.out.requests) :
                      probe'.out.requests[k] = DriveEndpoint \o id
          /\ \A shape \in DriveShapes, id \in DriveIds :
               probe'.arg = ShapeUrl(shape, id) => Len(probe'.out.requests) > 0
          /\ probe'.arg = ExampleLink
               => probe'.out.requests = <<ExampleAddress, ExampleAddress>>
          /\ probe'.arg \in OtherDriveUrls
               => /\ probe'.out.success = FALSE
                  /\ probe'.out.error = "invalid_drive_format"
                  /\ probe'.out.requests = <<>>
                  /\ files' = files]_vars

\* The link of the scenario was resolved and its file fetched.
C17_Witness ==
  /\ probe.fn = "downloadGoogleDrive"
  /\ probe.arg = ExampleLink
  /\ probe.out.success

\* The pieces between the commas of a text that hold more than blanks: the
\* places where such a piece has its first character that is not a blank.
TagStarts(t) ==
  {k \in 1..Len(t) :
     /\ t[k] \notin {" ", ","}
     /\ \A j \in 1..(k - 1) :
          (\A m \in j..(k - 1) : t[m] # ",") => t[j] = " "}

\* A text cut to its first n characters.
CutTo(short, long, n) ==
  /\ Len(short) = (IF Len(long) <= n THEN Len(long) ELSE n)
  /\ \A k \in 1..Len(short) : short[k] = long[k]

\* C19: the create-video call uploadVideo issues carries the title cut to
\* its first 100 characters, the description cut to its first 5000 (empty
\* when there is none), the tags between the commas of the tag text,
\* trimmed, without the empty ones, at most the first 30 in their order
\* (none when there is no tag text), and privacy private when none is set;
\* handleTitle, handleDescription and handleTags keep the text they are
\* given in full.
C19_MetadataCutAtTheCall ==
  /\ (probe.fn = "uploadVideo" /\ probe.out.calls # <<>>)
       => LET sent == probe.out.calls[1]
              given == probe.arg.videoData
          IN
          /\ CutTo(sent.title, given.title, 100)
          /\ IF given.description = Unset THEN sent.description = <<>>
             ELSE CutTo(sent.description, given.description, 5000)
          /\ IF given.tags = Unset THEN sent.tags = <<>>
             ELSE /\ Len(sent.tags) =
                       (IF Cardinality(TagStarts(given.tags)) <= 30
                        THEN Cardinality(TagStarts(given.tags)) ELSE 30)
                  /\ \A k \in 1..Len(sent.tags) :
                       LET tag == sent.tags[k] IN
                       /\ Len(tag) > 0
                       /\ tag[1] # " " /\ tag[Len(tag)] # " "
                       /\ \A j \in 1..Len(tag) : tag[j] # ","
                       /\ \E a \in TagStarts(given.tags) :
                            /\ Cardinality({b \in TagStarts(given.tags) : b < a}) = k - 1
                            /\ a + Len(tag) - 1 <= Len(given.tags)
                            /\ SubSeq(given.tags, a, a + Len(tag) - 1) = tag
          /\ given.tags = TxtTags
               => sent.tags = <<<<"a">>, <<"b">>, <<"c", " ", "d">>>>
          /\ sent.privacyStatus =
               (IF given.privacyStatus = NoValue THEN "private"
                ELSE given.privacyStatus)
  /\ (probe.fn = "handleText" /\ ToLowerCase(probe.arg.text) # TxtSkip)
       => /\ probe.arg.field = "title" => probe.out.title = probe.arg.text
          /\ probe.arg.field = "description"
               => probe.out.description = probe.arg.text
          /\ probe.arg.field = "tags" => probe.out.tags = probe.arg.text

\* A create-video call went out for a record whose title, description and
\* tag text are all past their limits and was answered.
C19_Witness ==
  /\ probe.fn = "uploadVideo" /\ probe.out.success
  /\ Len(probe.arg.videoData.title) > 100
  /\ Len(probe.arg.videoData.description) > 5000
  /\ Cardinality(TagStarts(probe.arg.videoData.tags)) > 30
  /\ Len(probe.out.calls[1].tags) = 30

\* C20: uploadVideo for a user without a credential record answers
\* success false with the not-authenticated error and issues no
\* create-video call; no invocation issues more than one such call, also
\* when the call fails.
C20_NoRecordNoCallAndNoRetry ==
  probe.fn = "uploadVideo"
    => /\ GetTokens(tokensFile, probe.arg.userId) = "none"
            => /\ probe.out.success = FALSE
               /\ probe.out.error = "not_authenticated"
               /\ probe.out.calls = <<>>
       /\ Len(probe.out.calls) <= 1
       /\ probe.out.success => Len(probe.out.calls) = 1

\* uploadVideo was called with a complete record for a user who has no
\* credential record and answered that the user is not authenticated.
C20_Witness ==
  /\ probe.fn = "uploadVideo"
  /\ GetTokens(tokensFile, probe.arg.userId) = "none"
  /\ probe.arg.videoData = PlainData
  /\ probe.out.error = "not_authenticated"

\* C21: acquisitions of two users in flight at the same time write to
\* different scratch paths, no acquisition in flight writes to a path
\* another user's session owns, and no two sessions own the same path.
C21_ScratchPathsUnique ==
  /\ \A i, j \in Slots :
       (handlers[i].pc = "dl" /\ handlers[j].pc = "dl"
          /\ handlers[i].u # handlers[j].u)
         => handlers[i].path # handlers[j].path
  /\ \A i \in Slots, u \in Users :
       (handlers[i].pc = "dl" /\ handlers[i].u # u)
         => userSessions[u].filePath # handlers[i].path
  /\ \A u, v \in Users :
       (u # v /\ userSessions[u].filePath # Null)
         => userSessions[u].filePath # userSessions[v].filePath

\* A scratch file no session points to and no handler is writing.
Unreferenced(p) ==
  /\ \A u \in Users : userSessions[u].filePath # p
  /\ \A o \in Slots : orphans[o].filePath # p
  /\ \A i \in Slots : handlers[i].path # p

\* C22: a scratch file that no session references is eventually removed.
C22_UnreferencedFilesRemoved ==
  \A p \in Clock : (p \in files /\ Unreferenced(p)) ~> (p \notin files)

\* C23: a session comes to awaiting_tags only out of awaiting_privacy, by
\* the handler of a privacy button, with privacyStatus one of the three
\* values; a privacy button handled in any other step, and a text that
\* arrives in awaiting_privacy, leave step and videoInfo as they are.
C23_TagsOnlyAfterPrivacyChoice ==
  [][\A u \in Users :
       /\ (userSessions'[u].step = "awaiting_tags"
             /\ userSessions[u].step # "awaiting_tags")
            => /\ userSessions[u].step = "awaiting_privacy"
               /\ \E i \in Slots : /\ handlers[i].k = "privacy"
                                   /\ handlers[i].u = u /\ Stepped(i)
               /\ userSessions'[u].videoInfo.privacyStatus \in Privacies
       /\ \A i \in Slots :
            (handlers[i].k = "privacy" /\ handlers[i].u = u /\ Stepped(i)
               /\ userSessions[u].step # "awaiting_privacy")
              => /\ userSessions'[u].step = userSessions[u].step
                 /\ userSessions'[u].videoInfo = userSessions[u].videoInfo
       /\ userSessions[u].step = "awaiting_privacy"
            => \A raw \in RawTexts :
                 OnText(u, raw)
                   => /\ userSessions'[u].step = "awaiting_privacy"
                      /\ userSessions'[u].videoInfo = userSessions[u].videoInfo]_vars

\* C24: a text that arrives while no authorization code is awaited is
\* taken by the step: in awaiting_title it becomes the title and the step
\* awaiting_description; in awaiting_description it becomes the description
\* unless it is "skip" in any case, and the step awaiting_privacy; in
\* awaiting_tags it becomes the tags under the same rule, the step becomes
\* uploading, and the handler it started goes on to call uploadVideo.
C24_TextTakenByStep ==
  [][/\ \A u \in Users, raw \in RawTexts :
          LET before == Middleware(userSessions, u)[u]
              after == userSessions'[u]
              text == Trim(raw)
              skipped == ToLowerCase(text) = TxtSkip
          IN
          (before.authStep # "awaiting_code" /\ OnText(u, raw))
            => /\ before.step = "awaiting_title"
                    => /\ after.videoInfo.title = text
                       /\ after.step = "awaiting_description"
               /\ before.step = "awaiting_description"
                    => /\ after.videoInfo.description =
                            (IF skipped THEN before.videoInfo.description ELSE text)
                       /\ after.step = "awaiting_privacy"
               /\ before.step = "awaiting_tags"
                    => /\ after.videoInfo.tags =
                            (IF skipped THEN before.videoInfo.tags ELSE text)
                       /\ after.step = "uploading"
                       /\ \E i \in Slots : /\ handlers[i].k = "free"
                                           /\ handlers'[i].k = "tags"
                                           /\ handlers'[i].u = u
     /\ \A i \in Slots :
          (handlers[i].k = "tags" /\ handlers[i].pc = "tg_reply" /\ Stepped(i))
            => handlers'[i].pc = "ul_tokens"]_vars

\* C25: the handler of a cancellation leaves a transfer in flight as it is,
\* and when the transfer of a user who was just told 'cancelled' returns,
\* that user's session is still idle without a file.
C25_CancelledStaysIdle ==
  [][\A i \in Slots :
       LET h == handlers[i] IN
       (h.k \in {"video", "url"} /\ h.pc = "dl")
         => /\ (\E j \in Slots : /\ handlers[j].k \in {"cancel", "cancel_btn"}
                                 /\ Stepped(j))
                 => /\ handlers'[i].k = h.k /\ handlers'[i].pc = "dl"
                    /\ handlers'[i].path = h.path
            /\ (Stepped(i) /\ lastReply = [to |-> h.u, msg |-> "cancelled"])
                 => /\ userSessions'[h.u].step = "idle"
                    /\ userSessions'[h.u].filePath = Null]_vars

\* C26: a session that is in step downloading leaves that step in the end,
\* as long as every call its handler awaits returns.
C26_DownloadingEnds ==
  \A u \in Users :
    (userSessions[u] # NoSession /\ userSessions[u].step = "downloading")
      ~> (userSessions[u] = NoSession \/ userSessions[u].step # "downloading")

\* C27: when an acquisition succeeds the session's videoInfo holds the
\* path, MIME type and size of the acquired file, and the videoInfo given
\* to uploadVideo names the session's file.
C27_UploadCarriesAcquiredFile ==
  [][\A i \in Slots :
       LET h == handlers[i] IN
       /\ (/\ h.k \in {"video", "url"} /\ h.pc = "dl" /\ h.s = 0
           /\ Stepped(i)
           /\ userSessions'[h.u].step = "awaiting_title")
            => /\ userSessions'[h.u].videoInfo.filePath = h.path
               /\ userSessions'[h.u].videoInfo.mimeType # NoValue
               /\ userSessions'[h.u].videoInfo.size # NoSize
       /\ (/\ h.k = "tags" /\ h.pc = "ul_tokens"
           /\ Stepped(i)
           /\ Held(i).filePath # Null)
            => UploadArgument(Held(i)).filePath = Held(i).filePath]_vars

\* C29: when the finally block of an upload that was started with a file
\* runs and the session meanwhile holds another file, acquired by a new
\* flow, the block deletes no file and leaves the session as it is.
C29_CompletionKeepsNewFlow ==
  [][\A i \in Slots :
       LET h == handlers[i] IN
       (/\ h.k = "tags" /\ h.pc \in {"tg_fin", "tg_reset"} /\ h.s = 0
        /\ Stepped(i)
        /\ h.path # Null
        /\ userSessions[h.u].filePath # Null
        /\ userSessions[h.u].filePath # h.path)
         => /\ files' = files
            /\ userSessions'[h.u] = userSessions[h.u]]_vars

\* C30: a session in a step after the acquisition holds the path of a
\* scratch file that exists, and a session in idle or awaiting_video holds
\* no path.
C30_FileMatchesStep ==
  \A u \in Users :
    LET session == userSessions[u] IN
    /\ session.step \in {"awaiting_title", "awaiting_description",
                         "awaiting_privacy", "awaiting_tags", "uploading"}
         => (session.filePath # Null /\ session.filePath \in files)
    /\ session.step \in {"idle", "awaiting_video"} => session.filePath = Null

\* C31: a handler that resumes and reads its user's session from the Map
\* (setPrivacy after answerCbQuery, manual_upload after checkAuth returned
\* true) finds an entry there, so its assignment to the session does not
\* throw.
C31_ResumedHandlerFindsSession ==
  [][\A i \in Slots :
       LET h == handlers[i] IN
       (/\ Stepped(i)
        /\ \/ h.k = "privacy" /\ h.pc = "cb"
           \/ /\ h.k = "manual" /\ h.pc = "ca_call"
              /\ lastReply' # [to |-> h.u, msg |-> "auth_first"])
         => userSessions[h.u] # NoSession]_vars

\* C32: when /logout discards a session that owns a scratch file (a step
\* from awaiting_title to uploading, filePath set), that file is gone from
\* the scratch directory once the session is discarded.
C32_LogoutRemovesFile ==
  [][\A i \in Slots :
       LET h == handlers[i]
           session == userSessions[h.u]
       IN
       (/\ h.k = "logout" /\ Stepped(i)
        /\ userSessions'[h.u] = NoSession
        /\ session.step \in {"awaiting_title", "awaiting_description",
                             "awaiting_privacy", "awaiting_tags", "uploading"}
        /\ session.filePath # Null
        /\ session.filePath \in files)
         => session.filePath \notin files']_vars

=============================================================================
